---- MODULE Spec2Model ----
(***************************************************************************)
(* Model of the posting pipeline of x-automation (src/app.py, run by       *)
(* src/run_job.py): one job run authenticates, fetches the most recent     *)
(* unposted record, checks its parts against the posted-texts collection,  *)
(* uploads an optional image, posts every part as a reply chain with up to *)
(* max_attempts tries per part, and sets posted=True on the record.        *)
(***************************************************************************)
EXTENDS Integers, Sequences, FiniteSets, TLC

\* ---------------------------------------------------------------- bounds
MaxParts == 3          \* longest parts list of a record
MaxRuns == 2           \* job runs started in one behaviour
MaxConcurrentParts == 2    \* longest parts list when two runs are concurrent

\* ------------------------------------------------------ program constants
max_attempts == 3      \* src/app.py:142

\* -------------------------------------------------------------- the data
Posts == {1, 2}        \* _id of the records of tweets_zico
PartIdx == 1..MaxParts

\* The text of part i of record p: every part of the queue has its own text.
Text(p, i) == <<p, i>>
PartsOfLen(p, n) == [i \in 1..n |-> Text(p, i)]
AllTexts == {Text(p, i) : p \in Posts, i \in PartIdx}
\* posted_tweets_zico: nothing in the program inserts into it, so its content
\* is an input; it holds no text or one text of the queue.
HistoryChoices == {{}} \cup {{t} : t \in AllTexts}

\* What client.create_tweet can give back: it raises, it returns a falsy value
\* (None), it returns a response without a usable data["id"], or it returns a
\* response with an id.
Responses == {"raise", "none", "noid", "ok"}

VARIABLES
    \* content store
    parts,          \* tweets_zico: _id -> parts
    image_id,       \* tweets_zico: _id -> has an image_id
    created_at,     \* tweets_zico: _id -> created_at_datetime
    posted,         \* tweets_zico: _id -> posted
    posted_texts,   \* posted_tweets_zico: the set of texts
    \* posting platform
    next_id,        \* the id the platform gives the next created tweet
    live,           \* <<_id, part index>> -> how many tweets of that part exist
    \* one job run
    pc,             \* where the run is
    runs,           \* job runs started so far
    client,         \* job: the AsyncClient of auth_v2 (TRUE) or None (FALSE)
    candidate,      \* get_new_tweet: _id of the record find_one gave, 0 for None
    tweet_data,     \* post_tweet: _id of the fetched record, 0 for None
    media_id,       \* post_tweet: "media" or "None"
    last_tweet_id,  \* post_tweet: id of the last posted part, 0 for None
    part,           \* post_tweet: index of the part the for loop is at
    attempt,        \* post_tweet: attempt
    post_success,   \* post_tweet: "unbound", "false" or "true"
    calls,          \* the create_tweet calls of this run, in order
    waits,          \* the asyncio.sleep calls of this run that have returned
    resolved,       \* prepare_post_image was called in this run
    closed,         \* the session of the client has been closed
    temp_image,     \* /tmp/tweet_<image_id>.png: "none", "exists" or "removed"
    store_calls,    \* calls on the two collections made in this run
    writes,         \* the update_one({posted: True}) calls of this run, in order
    errors,         \* what failed in this run
    exit_code,      \* run_job: -1 while running, then the exit status
    \* a second process of run_job.py
    other,          \* the variables of the job run that is not executing now
    interleaved     \* the processor left a job run that had started and not ended

vars == <<parts, image_id, created_at, posted, posted_texts, next_id, live,
          pc, runs, client, candidate, tweet_data, media_id, last_tweet_id,
          part, attempt, post_success, calls, waits, resolved, closed,
          temp_image, store_calls, writes, errors, exit_code, other,
          interleaved>>

store == <<parts, image_id, created_at, posted_texts>>
platform == <<next_id, live>>
loop == <<media_id, last_tweet_id, part, attempt, post_success, calls>>
ghost == <<waits, resolved>>
aux == <<closed, temp_image, store_calls>>
sched == <<other, interleaved>>

\* ------------------------------------------------------- content store
\* A find_one that sorts ascending: sort=[("created_at_datetime", 1)].
FindOnePendingOldest(pst, cat) ==
    {p \in Posts : /\ ~pst[p]
                   /\ \A q \in Posts : ~pst[q] => cat[p] <= cat[q]}

\* find_one({"posted": False}, sort=[("created_at_datetime", -1)]): the
\* unposted records with the latest creation time (more than one on a tie).
FindOnePending(pst, cat) ==
    {p \in Posts : /\ ~pst[p]
                   /\ \A q \in Posts : ~pst[q] => cat[q] <= cat[p]}

\* posted_tweets_zico.find_one({"text": text}) found a document.
ExistsPostedText(text, texts) == text \in texts

\* A dedup loop that looks at the first part only.
FirstMatchFirstPartOnly(ps, texts) ==
    IF ps # <<>> /\ ps[1] \in texts THEN 1 ELSE 0

\* The index of the first part the for loop of get_new_tweet finds in
\* posted_tweets_zico, 0 when it finds none.
FirstMatch(ps, texts) ==
    IF \E i \in DOMAIN ps : ExistsPostedText(ps[i], texts)
    THEN CHOOSE i \in DOMAIN ps :
            /\ ExistsPostedText(ps[i], texts)
            /\ \A j \in DOMAIN ps : ExistsPostedText(ps[j], texts) => i <= j
    ELSE 0

\* ------------------------------------------------------------ post_tweet
\* if media_id: create_tweet(..., media_ids=[media_id]) else create_tweet(...)
MediaIds(mid) == mid # "None"

\* new_tweet is truthy.
Truthy(resp) == resp \in {"noid", "ok"}

\* A loop that never clears media_id.
MediaAfterCallKept(mid, resp) == mid

\* if media_id: ...; if new_tweet: media_id = None
MediaAfterCall(mid, resp) ==
    IF MediaIds(mid) /\ Truthy(resp) THEN "None" ELSE mid

\* tweet_id = new_tweet.data["id"]; if new_tweet and tweet_id: reached and true.
\* A raise of create_tweet, of None.data or of data["id"] goes to the except.
PostOk(resp) == resp = "ok"

\* A call that never threads: in_reply_to_tweet_id=None.
InReplyToNone(last) == 0

\* in_reply_to_tweet_id=last_tweet_id
InReplyTo(last) == last

\* last_tweet_id = tweet_id
LastAfterCall(last, resp, id) == IF PostOk(resp) THEN id ELSE last

\* A while that goes on after a success: while attempt < max_attempts.
WhileIgnoresSuccess(att, success) ==
    IF att < max_attempts THEN "create_tweet" ELSE "for_part"

\* while attempt < max_attempts and not post_success: the body runs again, or
\* the for loop takes the next part.
While(att, success) ==
    IF att < max_attempts /\ success = "false" THEN "create_tweet" ELSE "for_part"

\* A while loop without the pacing sleep after a success.
AfterAttemptNoPacing(resp, att) ==
    IF resp = "ok" THEN "for_part"
    ELSE IF att < max_attempts THEN "sleep_retry"
    ELSE "for_part"

\* A while loop that sleeps 10 s after every failed attempt, the last included.
AfterAttemptAlwaysBacksOff(resp, att) ==
    IF resp = "ok" THEN "sleep_human" ELSE "sleep_retry"

\* Where the while body goes after an attempt: the pacing sleep after a
\* success, the 10 s sleep after a failure when attempts remain, else straight
\* back to the while condition.
AfterAttempt(resp, att) ==
    IF PostOk(resp) THEN "sleep_human"
    ELSE IF att < max_attempts THEN "sleep_retry"
    ELSE While(att, "false")

\* prepare_post_image: the media id of the upload, None when the record has no
\* image_id, the image is not in GridFS, or staging, auth_v1 or the upload fail.
prepare_post_image(has_image, blob_ok, stage_ok, auth_ok, upload_ok) ==
    IF has_image /\ blob_ok /\ stage_ok /\ auth_ok /\ upload_ok
    THEN "media" ELSE "None"

\* An update_one that changes nothing.
MarkPostedNothing(pst, p) == pst

\* update_one({"_id": ...}, {"$set": {"posted": True}})
MarkPosted(pst, p) == [pst EXCEPT ![p] = TRUE]

\* The variables of a process of run_job.py that has not started.
NotStarted ==
    [pc |-> "idle", client |-> FALSE, candidate |-> 0, tweet_data |-> 0,
     media_id |-> "None", last_tweet_id |-> 0, part |-> 0, attempt |-> 0,
     post_success |-> "unbound", calls |-> <<>>, waits |-> <<>>,
     resolved |-> FALSE, closed |-> FALSE, store_calls |-> 0,
     writes |-> <<>>, errors |-> {}, exit_code |-> -1]

\* ------------------------------------------------------------------ Init
\* The store before a run: every record of the queue has the same number of
\* parts (0..MaxParts) and the same image setting, record p was created at
\* time p, any record may already be posted, and posted_tweets_zico is one of
\* HistoryChoices.  No run has started.
Init ==
    /\ \E n \in 0..MaxParts : parts = [p \in Posts |-> PartsOfLen(p, n)]
    /\ \E img \in BOOLEAN : image_id = [p \in Posts |-> img]
    /\ created_at = [p \in Posts |-> p]
    /\ posted \in [Posts -> BOOLEAN]
    /\ posted_texts \in HistoryChoices
    /\ next_id = 1
    /\ live = [x \in Posts \X PartIdx |-> 0]
    /\ pc = "idle"
    /\ runs = 0
    /\ client = FALSE
    /\ candidate = 0
    /\ tweet_data = 0
    /\ media_id = "None"
    /\ last_tweet_id = 0
    /\ part = 0
    /\ attempt = 0
    /\ post_success = "unbound"
    /\ calls = <<>>
    /\ waits = <<>>
    /\ resolved = FALSE
    /\ closed = FALSE
    /\ temp_image = "none"
    /\ store_calls = 0
    /\ writes = <<>>
    /\ errors = {}
    /\ exit_code = -1
    /\ other = NotStarted
    /\ interleaved = FALSE

\* --------------------------------------------------------------- actions
\* run_job.py is started: asyncio.run(main()) -> job().
StartRun ==
    /\ pc = "idle"
    /\ runs < MaxRuns
    /\ runs' = runs + 1
    /\ pc' = "auth_v2"
    /\ client' = FALSE
    /\ candidate' = 0
    /\ tweet_data' = 0
    /\ media_id' = "None"
    /\ last_tweet_id' = 0
    /\ part' = 0
    /\ attempt' = 0
    /\ post_success' = "unbound"
    /\ calls' = <<>>
    /\ waits' = <<>>
    /\ resolved' = FALSE
    /\ closed' = FALSE
    /\ store_calls' = 0
    /\ writes' = <<>>
    /\ errors' = {}
    /\ exit_code' = -1
    /\ UNCHANGED <<store, sched, posted, platform, temp_image>>

\* A job that calls post_tweet whatever auth_v2 returned.
AfterAuthUnchecked(ok) == "get_new_tweet"

\* job: if client: await post_tweet(client)
AfterAuth(ok) == IF ok THEN "get_new_tweet" ELSE "main_end"

\* job: client = await auth_v2(); if client: await post_tweet(client).
\* auth_v2 returns None when the construction of the client raises.
AuthV2 ==
    /\ pc = "auth_v2"
    /\ \E ok \in BOOLEAN :
          /\ client' = ok
          /\ pc' = AfterAuth(ok)
          /\ errors' = IF ok THEN errors ELSE errors \cup {"auth"}
    /\ UNCHANGED <<store, sched, posted, platform, runs, candidate, tweet_data, loop,
                   ghost, aux, writes, exit_code>>

\* post_tweet: tweet_data = await get_new_tweet(); media_id = None;
\* if tweet_data: last_tweet_id = None.  fail_at is the store call of
\* get_new_tweet that raises (1 = the find_one of tweets_zico, then one
\* find_one per part looked up, then the update_one), 0 when none does.
GetNewTweet ==
    /\ pc = "get_new_tweet"
    /\ \E fail_at \in 0..(MaxParts + 2) :
          LET found == FindOnePending(posted, created_at) IN
          IF fail_at = 1
          THEN /\ errors' = errors \cup {"store"}
               /\ store_calls' = store_calls + 1
               /\ pc' = "main_end"
               /\ UNCHANGED <<candidate, tweet_data, posted, writes>>
          ELSE IF found = {}
          THEN /\ pc' = "main_end"
               /\ store_calls' = store_calls + 1
               /\ UNCHANGED <<candidate, tweet_data, posted, writes, errors>>
          ELSE \E p \in found :
               LET m == FirstMatch(parts[p], posted_texts)
                   lookups == IF m = 0 THEN Len(parts[p]) ELSE m
               IN
               /\ candidate' = p
               /\ IF fail_at \in 2..(lookups + 1)
                  THEN /\ errors' = errors \cup {"store"}
                       /\ store_calls' = store_calls + fail_at
                       /\ pc' = "main_end"
                       /\ UNCHANGED <<tweet_data, posted, writes>>
                  ELSE IF m # 0
                  THEN IF fail_at = m + 2
                       THEN /\ errors' = errors \cup {"store"}
                            /\ store_calls' = store_calls + m + 2
                            /\ pc' = "main_end"
                            /\ UNCHANGED <<tweet_data, posted, writes>>
                       ELSE /\ posted' = MarkPosted(posted, p)
                            /\ writes' = Append(writes, "get_new_tweet")
                            /\ store_calls' = store_calls + m + 2
                            /\ pc' = "main_end"
                            /\ UNCHANGED <<tweet_data, errors>>
                  ELSE /\ tweet_data' = p
                       /\ store_calls' = store_calls + lookups + 1
                       /\ pc' = "prepare_post_image"
                       /\ UNCHANGED <<posted, writes, errors>>
    /\ UNCHANGED <<store, sched, platform, runs, client, loop, ghost, closed,
                   temp_image, exit_code>>

\* A finally block that is missing: the file stays.
FinallyKeeps(file) == file

\* prepare_post_image, finally: if os.path.exists(temp_image_path): os.remove
FinallyRemoves(file) == IF file = "exists" THEN "removed" ELSE file

\* prepare_post_image, except: if temp_image_path and os.path.exists(...): os.remove
ExceptRemoves(file) == IF file = "exists" THEN "removed" ELSE file

\* The staged file when prepare_post_image returns.  Without an image_id or
\* without image data no file is opened.  A raise while the file is written
\* goes to the except; "return None" after a failed auth_v1 and the return
\* after the upload leave through the finally; a raise of media_upload leaves
\* through the finally and then the except.
temp_image_after(has_image, blob_ok, stage_ok, auth_ok, upload_ok) ==
    IF ~(has_image /\ blob_ok) THEN "none"
    ELSE IF ~stage_ok THEN ExceptRemoves("exists")
    ELSE IF ~auth_ok THEN FinallyRemoves("exists")
    ELSE IF ~upload_ok THEN ExceptRemoves(FinallyRemoves("exists"))
    ELSE FinallyRemoves("exists")

\* post_tweet: if "image_id" in tweet_data:
\*     media_id = await prepare_post_image(tweet_data["image_id"])
PreparePostImage ==
    /\ pc = "prepare_post_image"
    /\ \E blob_ok, stage_ok, auth_ok, upload_ok \in BOOLEAN :
          /\ media_id' = prepare_post_image(image_id[tweet_data], blob_ok,
                                            stage_ok, auth_ok, upload_ok)
          /\ temp_image' = temp_image_after(image_id[tweet_data], blob_ok,
                                            stage_ok, auth_ok, upload_ok)
    /\ resolved' = TRUE
    /\ pc' = "for_part"
    /\ UNCHANGED <<store, sched, posted, platform, runs, client, candidate, tweet_data,
                   last_tweet_id, part, attempt, post_success, calls, waits,
                   closed, store_calls, writes, errors, exit_code>>

\* for part in tweet_data["parts"]: max_attempts = 3; attempt = 0;
\* post_success = False -- or the loop is over.
ForPart ==
    /\ pc = "for_part"
    /\ IF part < Len(parts[tweet_data])
       THEN /\ part' = part + 1
            /\ attempt' = 0
            /\ post_success' = "false"
            /\ pc' = While(0, "false")
       ELSE /\ pc' = "after_loop"
            /\ UNCHANGED <<part, attempt, post_success>>
    /\ UNCHANGED <<store, sched, posted, platform, runs, client, candidate, tweet_data,
                   media_id, last_tweet_id, calls, ghost, aux, writes, errors,
                   exit_code>>

\* One pass of the while body up to the sleep: attempt += 1, the create_tweet
\* call, and what the code does with its result.
CreateTweet ==
    /\ pc = "create_tweet"
    /\ \E resp \in Responses :
          LET id == IF PostOk(resp) THEN next_id ELSE 0 IN
          /\ attempt' = attempt + 1
          /\ calls' = Append(calls, [part |-> part, attempt |-> attempt + 1,
                                     reply |-> InReplyTo(last_tweet_id),
                                     media |-> MediaIds(media_id), id |-> id])
          /\ media_id' = MediaAfterCall(media_id, resp)
          /\ last_tweet_id' = LastAfterCall(last_tweet_id, resp, id)
          /\ post_success' = IF PostOk(resp) THEN "true" ELSE "false"
          /\ next_id' = IF resp = "ok" THEN next_id + 1 ELSE next_id
          /\ live' = IF resp = "ok"
                     THEN [live EXCEPT ![<<tweet_data, part>>] = @ + 1]
                     ELSE live
          /\ pc' = AfterAttempt(resp, attempt + 1)
    /\ UNCHANGED <<store, sched, posted, runs, client, candidate, tweet_data, part,
                   ghost, aux, writes, errors, exit_code>>

\* await asyncio.sleep(human_delay), human_delay = random.uniform(5, 8)
SleepHuman ==
    /\ pc = "sleep_human"
    /\ waits' = Append(waits, [after |-> Len(calls), kind |-> "human"])
    /\ pc' = While(attempt, post_success)
    /\ UNCHANGED <<store, sched, posted, platform, runs, client, candidate, tweet_data,
                   loop, resolved, aux, writes, errors, exit_code>>

\* await asyncio.sleep(10)
SleepRetry ==
    /\ pc = "sleep_retry"
    /\ waits' = Append(waits, [after |-> Len(calls), kind |-> "retry"])
    /\ pc' = While(attempt, post_success)
    /\ UNCHANGED <<store, sched, posted, platform, runs, client, candidate, tweet_data,
                   loop, resolved, aux, writes, errors, exit_code>>

\* After the for loop: if not post_success: raise Exception(...);
\* tweets_zico.update_one({"_id": ...}, {"$set": {"posted": True}}).
\* post_success is unbound when the loop body never ran (UnboundLocalError).
\* Every exception ends in the except of post_tweet, which prints it.
AfterLoop ==
    /\ pc = "after_loop"
    /\ \E store_ok \in BOOLEAN :
          IF post_success = "unbound"
          THEN /\ errors' = errors \cup {"unbound"}
               /\ UNCHANGED <<posted, writes, store_calls>>
          ELSE IF post_success = "false"
          THEN /\ errors' = errors \cup {"exhausted"}
               /\ UNCHANGED <<posted, writes, store_calls>>
          ELSE IF ~store_ok
          THEN /\ errors' = errors \cup {"store"}
               /\ store_calls' = store_calls + 1
               /\ UNCHANGED <<posted, writes>>
          ELSE /\ posted' = MarkPosted(posted, tweet_data)
               /\ writes' = Append(writes, "post_tweet")
               /\ store_calls' = store_calls + 1
               /\ UNCHANGED errors
    /\ pc' = "main_end"
    /\ UNCHANGED <<store, sched, platform, runs, client, candidate, tweet_data, loop,
                   ghost, closed, temp_image, exit_code>>

\* Whether job() raises to its caller, given what failed in the run: auth_v2
\* turns its exception into None, get_new_tweet turns its exceptions into
\* None, and the except of post_tweet prints and returns, so the except
\* blocks of job (log and raise) are never entered.
job_raises(errs) == FALSE

\* run_job.main: sys.exit(1) when job() raised or an "unclosed" ResourceWarning
\* was recorded; otherwise main returns and the process exits with 0.
ExitCode(raised, warned) == IF raised \/ warned THEN 1 ELSE 0

\* run_job.main after await job(): the scan of warnings.warnings_occurred and
\* the exit.  Only a run that built a client can leave one unclosed.  Nothing
\* in job, post_tweet or main closes the client, so closed stays as it is.
MainEnd ==
    /\ pc = "main_end"
    /\ \E warned \in BOOLEAN :
          /\ warned => (client /\ ~closed)
          /\ exit_code' = ExitCode(job_raises(errors), warned)
    /\ pc' = "done"
    /\ UNCHANGED <<store, sched, posted, platform, runs, client, candidate, tweet_data,
                   loop, ghost, aux, writes, errors>>

\* The process is terminated by a signal while it publishes (no handler is
\* installed): the run ends where it is, its locals are gone, the store and
\* the platform keep what was written.
Kill ==
    /\ pc \in {"prepare_post_image", "for_part", "create_tweet", "sleep_human",
               "sleep_retry", "after_loop"}
    /\ pc' = "killed"
    /\ client' = FALSE
    /\ candidate' = 0
    /\ tweet_data' = 0
    /\ media_id' = "None"
    /\ last_tweet_id' = 0
    /\ part' = 0
    /\ attempt' = 0
    /\ post_success' = "unbound"
    /\ calls' = <<>>
    /\ waits' = <<>>
    /\ resolved' = FALSE
    /\ closed' = FALSE
    /\ store_calls' = 0
    /\ writes' = <<>>
    /\ errors' = {}
    /\ UNCHANGED <<store, sched, posted, platform, runs, temp_image, exit_code>>

Next ==
    \/ StartRun
    \/ AuthV2
    \/ GetNewTweet
    \/ PreparePostImage
    \/ ForPart
    \/ CreateTweet
    \/ SleepHuman
    \/ SleepRetry
    \/ AfterLoop
    \/ MainEnd
    \/ Kill

Spec == Init /\ [][Next]_vars

\* ------------------------------------------------- repeated job runs
\* The trigger starts the next run after the previous one has exited
\* (single-flight): a fresh process, so the locals start over.
NextRun ==
    /\ pc = "done"
    /\ runs < MaxRuns
    /\ runs' = runs + 1
    /\ pc' = "auth_v2"
    /\ client' = FALSE
    /\ candidate' = 0
    /\ tweet_data' = 0
    /\ media_id' = "None"
    /\ last_tweet_id' = 0
    /\ part' = 0
    /\ attempt' = 0
    /\ post_success' = "unbound"
    /\ calls' = <<>>
    /\ waits' = <<>>
    /\ resolved' = FALSE
    /\ closed' = FALSE
    /\ store_calls' = 0
    /\ writes' = <<>>
    /\ errors' = {}
    /\ exit_code' = -1
    /\ UNCHANGED <<store, sched, posted, platform, temp_image>>

\* A queue of text-only records, any of them already posted, and an empty
\* posted_tweets_zico.
InitQueue ==
    /\ Init
    /\ \A p \in Posts : ~image_id[p]
    /\ posted_texts = {}

NextQueue ==
    \/ StartRun
    \/ AuthV2
    \/ GetNewTweet
    \/ PreparePostImage
    \/ ForPart
    \/ CreateTweet
    \/ SleepHuman
    \/ SleepRetry
    \/ AfterLoop
    \/ MainEnd
    \/ NextRun

SpecQueue == InitQueue /\ [][NextQueue]_vars

\* ---------------------------------------------- two concurrent job runs
\* Two processes of run_job.py on one store and one platform account.  The
\* actions above are the steps of the process that executes now; Switch hands
\* the processor to the other process: the variables of the two job runs
\* change places, the store, the platform and the file system stay.  Nothing
\* in get_new_tweet or post_tweet locks the record, so a Switch is possible
\* between any two steps.
Switch ==
    /\ other' = [pc |-> pc, client |-> client, candidate |-> candidate,
                 tweet_data |-> tweet_data, media_id |-> media_id,
                 last_tweet_id |-> last_tweet_id, part |-> part,
                 attempt |-> attempt, post_success |-> post_success,
                 calls |-> calls, waits |-> waits, resolved |-> resolved,
                 closed |-> closed, store_calls |-> store_calls,
                 writes |-> writes, errors |-> errors, exit_code |-> exit_code]
    /\ pc' = other.pc
    /\ client' = other.client
    /\ candidate' = other.candidate
    /\ tweet_data' = other.tweet_data
    /\ media_id' = other.media_id
    /\ last_tweet_id' = other.last_tweet_id
    /\ part' = other.part
    /\ attempt' = other.attempt
    /\ post_success' = other.post_success
    /\ calls' = other.calls
    /\ waits' = other.waits
    /\ resolved' = other.resolved
    /\ closed' = other.closed
    /\ store_calls' = other.store_calls
    /\ writes' = other.writes
    /\ errors' = other.errors
    /\ exit_code' = other.exit_code
    /\ interleaved' = (interleaved \/ pc \notin {"idle", "done"})
    /\ UNCHANGED <<store, posted, platform, runs, temp_image>>

\* A queue of text-only records of at most MaxConcurrentParts parts that are
\* all unposted, and an empty posted_tweets_zico.
InitConcurrent ==
    /\ InitQueue
    /\ \A p \in Posts : ~posted[p] /\ Len(parts[p]) <= MaxConcurrentParts

NextConcurrent ==
    \/ StartRun
    \/ AuthV2
    \/ GetNewTweet
    \/ PreparePostImage
    \/ ForPart
    \/ CreateTweet
    \/ SleepHuman
    \/ SleepRetry
    \/ AfterLoop
    \/ MainEnd
    \/ Switch

SpecConcurrent == InitConcurrent /\ [][NextConcurrent]_vars

\* ==================================================== vocabulary of claims
\* The parts of the record post_tweet is publishing.
NParts == IF tweet_data = 0 THEN 0 ELSE Len(parts[tweet_data])
CallsFor(i) == {k \in DOMAIN calls : calls[k].part = i}
\* Part i had a create_tweet call that returned an id.
Succeeded(i) == \E k \in CallsFor(i) : calls[k].id # 0
\* Part i failed all of its attempts.
Exhausted(i) ==
    /\ Cardinality(CallsFor(i)) = max_attempts
    /\ \A k \in CallsFor(i) : calls[k].id = 0
AnyExhausted == \E i \in 1..NParts : Exhausted(i)
AllPublished == tweet_data # 0 /\ \A i \in 1..NParts : Succeeded(i)
IsOkCall(c) == c.id # 0
OkCalls == SelectSeq(calls, IsOkCall)
\* The id returned by the last successful call before call k, 0 for none.
LastIdBefore(k) ==
    LET before == {j \in 1..(k - 1) : calls[j].id # 0} IN
    IF before = {} THEN 0
    ELSE calls[CHOOSE j \in before : \A h \in before : h <= j].id
\* Some part of the record find_one gave is in posted_tweets_zico.
CandidateMatches ==
    /\ candidate # 0
    /\ \E i \in DOMAIN parts[candidate] : parts[candidate][i] \in posted_texts
Publishing == {"prepare_post_image", "for_part", "create_tweet", "sleep_human",
               "sleep_retry", "after_loop"}

\* ------------------------------------------------------------------- C1
\* C1: once a part has failed all max_attempts attempts, no create_tweet call
\* is issued for a part after it.  The code does not hold this: the check of
\* post_success stands after the for loop, so the loop goes on to the next part.
C1_NoCallAfterFailedPart ==
    \A i \in 1..NParts : Exhausted(i) =>
        \A k \in DOMAIN calls : calls[k].part <= i

\* ------------------------------------------------------------------- C2
\* C2: when a part of the fetched record failed all its attempts, the record
\* is not marked posted; post_tweet writes posted=True only when every part
\* had a successful call.  The code looks at the last part's post_success only.
C2_FailedPartLeavesUnposted ==
    /\ (tweet_data # 0 /\ AnyExhausted) => ~posted[tweet_data]
    /\ (\E w \in DOMAIN writes : writes[w] = "post_tweet") => AllPublished

\* ------------------------------------------------------------------- C3
\* C3 as stated: when a part of the fetched record equals a posted text, the
\* run has marked the record posted, made no create_tweet call and resolved
\* no image.
C3_MatchMarksPosted ==
    (pc = "done" /\ CandidateMatches) =>
        /\ posted[candidate]
        /\ calls = <<>>
        /\ ~resolved

\* C3 amended: when a part of the fetched record equals a posted text, the run
\* makes no create_tweet call and resolves no image, and it has marked the
\* record posted exactly when no store call of get_new_tweet raised (a lookup
\* before the matching part, or the update_one itself).
C3_MatchSkipsPost ==
    CandidateMatches =>
        /\ calls = <<>>
        /\ ~resolved
        /\ tweet_data = 0
        /\ pc = "done" => (posted[candidate] <=> "store" \notin errors)
        /\ pc = "done" /\ posted[candidate] => writes = <<"get_new_tweet">>

\* A run ended on a record of two or more parts whose match is not the first
\* part, and the record is marked.
C3_Witness ==
    /\ pc = "done"
    /\ CandidateMatches
    /\ Len(parts[candidate]) >= 2
    /\ parts[candidate][1] \notin posted_texts
    /\ posted[candidate]
    /\ calls = <<>>

\* ------------------------------------------------------------------- C4
\* C4 as stated: after a publish in which every part succeeded there are
\* exactly N create_tweet calls, call k is for part k, the first has no
\* reply-to id and every other has the id the previous call returned.
C4_ExactlyNCalls ==
    (pc = "done" /\ AllPublished) =>
        /\ Len(calls) = NParts
        /\ \A k \in DOMAIN calls :
              /\ calls[k].part = k
              /\ calls[k].reply = IF k = 1 THEN 0 ELSE calls[k - 1].id

\* C4 amended: after a publish in which every part succeeded there are exactly
\* N successful create_tweet calls (failed attempts are further calls), the
\* k-th successful call is for part k, and every call, failed or not, carries
\* as reply-to id the id returned by the last successful call before it, none
\* when there is no such call.
C4_ReplyChain ==
    AllPublished =>
        /\ Len(OkCalls) = NParts
        /\ \A k \in DOMAIN OkCalls : OkCalls[k].part = k
        /\ \A k \in DOMAIN calls : calls[k].reply = LastIdBefore(k)
        /\ \A k \in DOMAIN OkCalls :
              OkCalls[k].reply = IF k = 1 THEN 0 ELSE OkCalls[k - 1].id

\* A publish of three parts ended, every part succeeded and a retry was needed.
C4_Witness ==
    /\ pc = "done"
    /\ AllPublished
    /\ NParts = 3
    /\ Len(calls) > NParts
    /\ posted[tweet_data]

\* ------------------------------------------------------------------- C5
\* C5: a run in which every part of the fetched record was published has
\* marked the record posted when it ends, for every length of parts.  The code
\* does not hold this for a record without parts: post_success is then unbound
\* at "if not post_success" and the UnboundLocalError skips the update_one.
C5_AllPublishedIsMarked ==
    (pc = "done" /\ AllPublished) => posted[tweet_data]

\* ------------------------------------------------------------------- C6
\* C6: a run writes posted at most once (get_new_tweet on a dedup match or
\* post_tweet after the loop, never both); while the run publishes, the record
\* is unposted; the write of post_tweet comes after the last part's successful
\* create_tweet call and the pacing sleep that follows it; and a run terminated
\* while it publishes leaves the record unposted and the tweets it made live.
C6_PostedWrittenOnceAtEnd ==
    /\ [](Len(writes) <= 1)
    /\ []((tweet_data # 0 /\ pc \in Publishing) => ~posted[tweet_data])
    /\ [][(posted' # posted /\ pc = "after_loop") =>
            /\ writes = <<>>
            /\ calls # <<>>
            /\ calls[Len(calls)].part = NParts
            /\ calls[Len(calls)].id # 0
            /\ waits # <<>>
            /\ waits[Len(waits)] = [after |-> Len(calls), kind |-> "human"]]_vars
    /\ [][pc' = "killed" => (~posted'[tweet_data] /\ live' = live)]_vars

\* A run over a record of two or more parts ended with the write of post_tweet.
C6_Witness ==
    /\ pc = "done"
    /\ writes = <<"post_tweet">>
    /\ NParts >= 2
    /\ posted[tweet_data]

\* ------------------------------------------------------------------- C7
\* C7: over any sequence of single-flight runs no part of a record is
\* published twice.  The code does not hold this: a run that published the
\* first parts and then ended without the update_one leaves the record
\* unposted, and the next run publishes those parts again.
C7_NoPartPublishedTwice ==
    \A x \in DOMAIN live : live[x] <= 1

\* ------------------------------------------------------------------- C8
\* C8: a run in which auth_v2, a store call or a part's three attempts failed
\* exits non-zero, and a run that exits 0 did a full publish, a dedup skip or
\* found the queue empty.  The code does not hold this: every such failure is
\* caught inside auth_v2, get_new_tweet or post_tweet and job() returns.
C8_FailureExitsNonZero ==
    pc = "done" =>
        /\ (errors \cap {"auth", "store", "exhausted"} # {}) => exit_code # 0
        /\ exit_code = 0 =>
              \/ writes = <<"post_tweet">> /\ AllPublished
              \/ writes = <<"get_new_tweet">>
              \/ client /\ candidate = 0 /\ errors = {}

\* ------------------------------------------------------------------- C9
\* C9: a create_tweet call carries the media id only when it is for the first
\* part.  The code does not hold this: it attaches media_id whenever it is
\* still set, and after the first part failed all attempts the loop goes on
\* (C1) with the media id still held.
C9_MediaOnFirstPartOnly ==
    \A k \in DOMAIN calls : calls[k].media => calls[k].part = 1

\* ------------------------------------------------------------------ C10
\* C10: once a create_tweet call carrying the media id has succeeded, no later
\* call of the run carries it, for a later part or for a retry; so at most one
\* successful call of a run carries it.
C10_MediaConsumedOnce ==
    /\ \A j, k \in DOMAIN calls :
          (j < k /\ calls[j].media /\ calls[j].id # 0) => ~calls[k].media
    /\ Cardinality({k \in DOMAIN calls : calls[k].media /\ calls[k].id # 0}) <= 1

\* A call carrying the media id succeeded and a later part was retried after it.
C10_Witness ==
    \E j, k \in DOMAIN calls :
        /\ j < k
        /\ calls[j].media /\ calls[j].id # 0
        /\ calls[k].part > calls[j].part
        /\ calls[k].attempt > 1

\* ------------------------------------------------------------------ C11
\* C11: media_id is cleared only by a create_tweet call that returned an id,
\* so a failed attempt leaves it for the retry, and when the upload gave a
\* media id (the first call of the run carries it) the successful call for
\* the first part carries it.  The code does not hold this: it clears
\* media_id on any truthy response, before it looks for data["id"].
C11_MediaClearedOnlyOnSuccess ==
    /\ [][(media_id = "media" /\ media_id' = "None" /\ Len(calls') = Len(calls) + 1)
            => calls'[Len(calls')].id # 0]_vars
    /\ [](\A k \in DOMAIN calls :
            (calls[1].media /\ calls[k].part = 1 /\ calls[k].id # 0)
                => calls[k].media)

\* ------------------------------------------------------------------ C12
\* C12: a run makes at most max_attempts create_tweet calls for a part and
\* none after the part's first successful call, so at most one successful
\* call per part and at most max_attempts * N calls for a record of N parts.
C12_BoundedAttempts ==
    /\ \A k \in DOMAIN calls : calls[k].part \in 1..NParts
    /\ \A i \in 1..NParts :
          /\ Cardinality(CallsFor(i)) <= max_attempts
          /\ Cardinality({k \in CallsFor(i) : calls[k].id # 0}) <= 1
          /\ \A j, k \in CallsFor(i) : j < k => calls[j].id = 0
    /\ Len(calls) <= max_attempts * NParts

\* A part succeeded on its last attempt and the next part was attempted.
C12_Witness ==
    \E j, k \in DOMAIN calls :
        /\ j < k
        /\ calls[j].attempt = max_attempts /\ calls[j].id # 0
        /\ calls[k].part = calls[j].part + 1

\* ------------------------------------------------------------------ C13
\* The sleeps that returned after call k and before call k + 1.
WaitsAfter(k) == {w \in DOMAIN waits : waits[w].after = k}
\* The sleep that follows call k, if any, has returned.
Settled(k) == k < Len(calls) \/ pc \notin {"sleep_human", "sleep_retry"}

\* C13: after a failed attempt the 10 s sleep happens exactly when attempts
\* remain for the part, and before the next attempt; the pacing sleep happens
\* exactly once after every successful attempt and never after a failed one;
\* there is no other sleep.
C13_WaitsFollowAttempts ==
    /\ \A w \in DOMAIN waits : waits[w].after \in DOMAIN calls
    /\ \A v, w \in DOMAIN waits : v < w => waits[v].after < waits[w].after
    /\ \A k \in DOMAIN calls :
          /\ \A w \in WaitsAfter(k) :
                waits[w].kind = IF calls[k].id # 0 THEN "human" ELSE "retry"
          /\ Settled(k) =>
                (WaitsAfter(k) # {}
                    <=> (calls[k].id # 0 \/ calls[k].attempt < max_attempts))
    /\ pc = "sleep_human" => calls[Len(calls)].id # 0
    /\ pc = "sleep_retry" =>
          calls[Len(calls)].id = 0 /\ calls[Len(calls)].attempt < max_attempts

\* The first attempt of the second part failed, the second succeeded: two
\* calls for the part, one 10 s sleep between them, one pacing sleep after.
C13_Witness ==
    \E k \in DOMAIN calls :
        /\ k + 1 \in DOMAIN calls
        /\ calls[k].part = 2 /\ calls[k].attempt = 1 /\ calls[k].id = 0
        /\ calls[k + 1].part = 2 /\ calls[k + 1].id # 0
        /\ Cardinality(CallsFor(2)) = 2
        /\ \E w \in WaitsAfter(k) : waits[w].kind = "retry"
        /\ \E w \in WaitsAfter(k + 1) : waits[w].kind = "human"
        /\ pc = "done"

C15_SessionClosedAtEnd ==
    (pc = "done" /\ client) => closed

\* ------------------------------------------------------------------ C16
\* C16: once prepare_post_image has returned, the staged file
\* /tmp/tweet_<image_id>.png does not exist, whichever way the function left.
C16_NoStagedFileAfterReturn ==
    resolved => temp_image # "exists"

\* The file was staged, the upload did not give a media id, and the file is
\* gone when post_tweet goes on to the parts.
C16_Witness ==
    /\ pc = "for_part"
    /\ resolved
    /\ temp_image = "removed"
    /\ media_id = "None"

\* ------------------------------------------------------------------ C17
\* prepare_post_image gave no media id (or was not called for want of an
\* image_id): the first create_tweet call, if any, carries none.
ResolvedNone ==
    /\ resolved
    /\ IF calls = <<>> THEN media_id = "None" ELSE ~calls[1].media

\* C17: when the image resolves to no media id, no create_tweet call carries
\* media ids, a run that ends without a store error has attempted every part,
\* and it has marked the record posted if the parts were published.  The code
\* does not hold the last: a record whose parts list is empty is never marked.
C17_NoMediaStillPublishes ==
    ResolvedNone =>
        /\ \A k \in DOMAIN calls : ~calls[k].media
        /\ (pc = "done" /\ "store" \notin errors) =>
              /\ \A i \in 1..NParts : CallsFor(i) # {}
              /\ AllPublished => posted[tweet_data]

\* ------------------------------------------------------------------ C18
\* C18: in a run whose auth_v2 failed, no call on the collections, no
\* prepare_post_image, no create_tweet call, no sleep and no write of posted
\* happens.
C18_AuthFailureStopsTheRun ==
    "auth" \in errors =>
        /\ ~client
        /\ store_calls = 0
        /\ ~resolved
        /\ calls = <<>>
        /\ waits = <<>>
        /\ writes = <<>>

\* A run has ended after auth_v2 failed.
C18_Witness ==
    /\ pc = "done"
    /\ "auth" \in errors
    /\ store_calls = 0

\* ------------------------------------------------------------------ C20
\* C20: a run in which auth_v2, every call on the collections and every
\* create_tweet call succeeded, and in which find_one gave a record, ends with
\* that record marked posted, so that the next run selects another record.
\* The code does not hold this: a record whose parts list is empty is selected
\* and left unposted, and the store is as it was before the run.
C20_CleanRunMarksItsRecord ==
    (/\ pc = "done"
     /\ candidate # 0
     /\ "store" \notin errors
     /\ \A k \in DOMAIN calls : calls[k].id # 0)
        => posted[candidate]

\* ------------------------------------------------------------------ C19
\* C19: nothing keeps two concurrent job runs from reading the same unposted
\* record and publishing it twice.  A part is never live more often than job
\* runs were started, and a job run publishes a part that is live already only
\* when the other job run holds the same record and either the two runs were
\* interleaved or the other run did not write posted=True: job runs that come
\* one after the other and each end with the write never publish a part twice.
C19_TwicePublishedOnlyConcurrently ==
    /\ [](\A x \in Posts \X PartIdx : live[x] <= runs)
    /\ [][\A x \in Posts \X PartIdx :
            (live[x] >= 1 /\ live'[x] = live[x] + 1) =>
                /\ other.tweet_data = tweet_data
                /\ \/ interleaved
                   \/ \A k \in DOMAIN other.writes :
                          other.writes[k] # "post_tweet"]_vars

\* Two concurrent job runs have both fetched the same record, both published
\* each of its parts and both written posted=True.
C19_Witness ==
    /\ pc = "done" /\ other.pc = "done"
    /\ tweet_data # 0 /\ other.tweet_data = tweet_data
    /\ Len(parts[tweet_data]) = MaxConcurrentParts
    /\ \A i \in 1..Len(parts[tweet_data]) : live[<<tweet_data, i>>] = 2
    /\ writes = <<"post_tweet">> /\ other.writes = <<"post_tweet">>
    /\ interleaved

====
